---- MODULE Spec2Model ----
(***************************************************************************)
(* Model of grafana_export.py: the folder traversal (get_all_folders), the *)
(* dashboard fetch (get_all_dashboards), the selection in __main__ and the *)
(* generation of the Terraform artifact (generate_terraform).              *)
(*                                                                         *)
(* Strings the program transforms (uids, resource names, the               *)
(* --skip-resources argument, file names) are sequences of one-character   *)
(* strings, so that replace, strip, split and the sort order are computed  *)
(* as Python computes them.  Titles are only compared for equality and are *)
(* plain strings.                                                          *)
(***************************************************************************)
EXTENDS Integers, Sequences, FiniteSets, TLC

VARIABLES
    pc,                 \* position of the sequential run of __main__
    api_parent,         \* backing API: parentUid of each folder's detail
    api_title,          \* backing API: title of each folder
    api_extra,          \* backing API: listings that disagree with parentUid
    api_search,         \* backing API: the /api/search response
    folder_names,       \* args.folder_names
    skip_arg,           \* args.skip_resources (raw text, or None)
    stack,              \* call stack of fetch_folder_and_children: pending loops
    processed_uids,     \* get_all_folders.processed_uids
    all_folders,        \* get_all_folders.all_folders
    entered,            \* history: times the body ran past the visited check
    fetch_failed,       \* history: uids whose detail or children call failed
    list_failed,        \* history: the first /api/folders call failed
    idx,                \* get_all_dashboards: position in the search response
    all_dashboards,     \* get_all_dashboards.all_dashboards
    dash_error,         \* history: "none", "search" or "doc"
    dash_failed_at,     \* history: position of the failed document fetch
    target_dashboards,  \* __main__.target_dashboards
    tf_config,          \* generate_terraform.tf_config, as a sequence of blocks
    files,              \* files written under dashboards/
    artifact            \* content written to grafana.tf (None before)

vars == <<pc, api_parent, api_title, api_extra, api_search, folder_names,
          skip_arg, stack, processed_uids, all_folders, entered, fetch_failed,
          list_failed, idx, all_dashboards, dash_error, dash_failed_at,
          target_dashboards, tf_config, files, artifact>>

api_vars == <<api_parent, api_title, api_extra, api_search, folder_names, skip_arg>>

folder_vars == <<stack, processed_uids, all_folders, entered, fetch_failed, list_failed>>

dash_vars == <<idx, all_dashboards, dash_error, dash_failed_at>>

gen_vars == <<target_dashboards, tf_config, files, artifact>>

-----------------------------------------------------------------------------
(* Bounds of the model                                                     *)

\* misbehaving folders-by-parent listings (duplicates, cross listings, cycles)
MaxExtra == 1

\* dashboards in the search response
MaxHits == 2

-----------------------------------------------------------------------------
(* Strings                                                                 *)

\* Python's None
None == <<"<None>">>

\* code point of the characters used
Ord(c) ==
    CASE c = " " -> 32
      [] c = "," -> 44
      [] c = "-" -> 45
      [] c = "1" -> 49
      [] c = "2" -> 50
      [] c = "3" -> 51
      [] c = "_" -> 95
      [] c = "a" -> 97
      [] c = "b" -> 98
      [] c = "c" -> 99
      [] c = "d" -> 100
      [] c = "x" -> 120
      [] c = "z" -> 122
      [] OTHER -> 0

\* Python's str < str: lexicographic by code point
StrLess(a, b) ==
    \E i \in 1..Len(b) :
        /\ Len(a) >= i - 1
        /\ \A j \in 1..(i - 1) : a[j] = b[j]
        /\ (Len(a) = i - 1 \/ Ord(a[i]) < Ord(b[i]))

\* str.replace('-', '_')
ReplaceHyphen(s) == [i \in 1..Len(s) |-> IF s[i] = "-" THEN "_" ELSE s[i]]

RECURSIVE LStrip(_)
LStrip(s) == IF s # <<>> /\ Head(s) = " " THEN LStrip(Tail(s)) ELSE s

RECURSIVE RStrip(_)
RStrip(s) ==
    IF s # <<>> /\ s[Len(s)] = " " THEN RStrip(SubSeq(s, 1, Len(s) - 1)) ELSE s

\* str.strip()
Strip(s) == RStrip(LStrip(s))

\* str.split(','): the set of the pieces
RECURSIVE SplitComma(_, _)
SplitComma(s, cur) ==
    IF s = <<>> THEN {cur}
    ELSE IF Head(s) = "," THEN {cur} \cup SplitComma(Tail(s), <<>>)
    ELSE SplitComma(Tail(s), Append(cur, Head(s)))

-----------------------------------------------------------------------------
(* The backing API and the arguments                                       *)

U_ab == <<"a", "-", "b">>
U_a_b == <<"a", "_", "b">>
U_c == <<"c">>
U_zz == <<"z", "z">>

\* the folders of the instance
FolderUids == {U_ab, U_a_b, U_c}

Reserved == "GrafanaCloud"

\* the title a folder has when it is not the reserved folder
PlainTitle(u) == IF u = U_ab THEN "A" ELSE IF u = U_a_b THEN "B" ELSE "C"

\* the least uid of a non-empty set, in Python's string order
MinUid(S) == CHOOSE u \in S : \A v \in S : v = u \/ StrLess(u, v)

RECURSIVE SetToSeq(_)
SetToSeq(S) ==
    IF S = {} THEN <<>>
    ELSE LET m == MinUid(S) IN <<m>> \o SetToSeq(S \ {m})

\* GET /api/folders?parentUid=u: the folders whose parent is u, then the
\* listings the API adds on top (a folder listed twice, under a second
\* parent, or under its own descendant)
Children(u) ==
    SetToSeq({v \in FolderUids : api_parent[v] = u})
        \o SetToSeq({v \in FolderUids : <<u, v>> \in api_extra})

\* GET /api/folders: the top-level folders
TopLevel == SetToSeq({v \in FolderUids : api_parent[v] = None})

\* the outcome of one HTTP call: a response, an error status, a timeout
Outcomes == {"ok", "http_error", "timeout"}

\* following parentUid from v for n steps
RECURSIVE Ancestor(_, _, _)
Ancestor(p, v, n) ==
    IF n = 0 \/ v = None THEN v ELSE Ancestor(p, p[v], n - 1)

\* parentUid describes a forest: every chain of parents ends at the top level
IsForest(p) == \A v \in FolderUids : Ancestor(p, v, Cardinality(FolderUids)) = None

Parents == {p \in [FolderUids -> FolderUids \cup {None}] : IsForest(p)}

\* a misbehaving API: every folder has a parent, so no folder is top-level
CyclicParent == (U_ab :> U_a_b) @@ (U_a_b :> U_c) @@ (U_c :> U_ab)

\* one reserved system folder at most
Titles ==
    {t \in [FolderUids -> {Reserved, "A", "B", "C"}] :
        /\ \A u \in FolderUids : t[u] \in {Reserved, PlainTitle(u)}
        /\ Cardinality({u \in FolderUids : t[u] = Reserved}) <= 1}

Extras == {E \in SUBSET (FolderUids \X FolderUids) : Cardinality(E) <= MaxExtra}

\* values of --folder-names (argparse gives None, modelled as <<>>, when absent)
TargetChoices == {<<>>, <<"Zed", "A">>}

D_d1 == <<"d", "1">>
D_abc123 == <<"a", "b", "c", "1", "2", "3">>
D_x == <<"x">>
D_z == <<"z">>

\* the uid of the i-th dashboard of the search response
DashUidPool == <<D_d1, D_abc123, D_x, D_z>>

\* folderUid of a search hit: absent, a folder of the instance, an unknown folder
DashFolders == {None, U_ab, U_c, U_zz}

SearchHit(i, f) == [uid |-> DashUidPool[i], title |-> "X", folderUid |-> f]

Searches(n) ==
    UNION {{[i \in 1..k |-> SearchHit(i, fs[i])] : fs \in [1..k -> DashFolders]} :
              k \in 0..n}

\* values of --skip-resources
SkipArgs ==
    {None,
     <<"d", "_", "d", "1">>,
     <<" ", "d", "_", "a", "b", "c", "1", "2", "3", " ", ",", "d", "_", "x">>}

\* GET /api/dashboards/uid/<uid>: the dashboard document, as its keys and
\* the value of editable
ApiDocument(uid) ==
    [keys |-> {"title", "panels", "editable", "version", "id", "gnetId"},
     editable |-> FALSE]

-----------------------------------------------------------------------------
(* get_all_folders                                                         *)

\* the uid is never recorded as processed
MarkProcessed_Forget(processed, uid) == processed

\* processed_uids.add(uid)
MarkProcessed(processed, uid) == processed \cup {uid}

\* the reserved title is never recognised
IsReserved_Never(title) == FALSE

\* folder['title'] == 'GrafanaCloud'
IsReserved(title) == title = Reserved

\* the parent is read from a key the response does not have
FolderRecord_NoParent(uid) ==
    [uid |-> uid, title |-> api_title[uid], parent_uid |-> None]

\* the record appended to all_folders
FolderRecord(uid) ==
    [uid |-> uid, title |-> api_title[uid], parent_uid |-> api_parent[uid]]

\* the error leaves every pending loop: the traversal ends
AfterFetchError_Abort(rest) == <<<<>>>>

\* the except clauses of fetch_folder_and_children: the error is printed and
\* the call returns to the loop that made it
AfterFetchError(rest) == rest

\* folder_map = {folder['title']: folder for folder in all_folders_response}:
\* the last folder of each title
FolderMap(resp) ==
    [t \in {api_title[resp[i]] : i \in 1..Len(resp)} |->
        resp[CHOOSE i \in 1..Len(resp) :
                /\ api_title[resp[i]] = t
                /\ \A j \in (i + 1)..Len(resp) : api_title[resp[j]] # t]]

\* the uids the name loop calls fetch_folder_and_children with, in order
RECURSIVE NamedRoots(_, _)
NamedRoots(names, fmap) ==
    IF names = <<>> THEN <<>>
    ELSE IF Head(names) \in DOMAIN fmap
         THEN <<fmap[Head(names)]>> \o NamedRoots(Tail(names), fmap)
         ELSE NamedRoots(Tail(names), fmap)

\* the uids the top-level loop calls fetch_folder_and_children with
Roots(resp, names) ==
    IF names = <<>> THEN resp ELSE NamedRoots(names, FolderMap(resp))

\* lines 60-94: the first listing and the choice of the roots
get_all_folders ==
    /\ pc = "get_all_folders"
    /\ \E r \in Outcomes :
        IF r # "ok"
        THEN /\ list_failed' = TRUE
             /\ pc' = "get_all_dashboards"
             /\ UNCHANGED stack
        ELSE /\ UNCHANGED list_failed
             /\ IF TopLevel = <<>>
                THEN pc' = "get_all_dashboards" /\ UNCHANGED stack
                ELSE /\ pc' = "traverse"
                     /\ stack' = <<Roots(TopLevel, folder_names)>>
    /\ UNCHANGED <<processed_uids, all_folders, entered, fetch_failed>>
    /\ UNCHANGED <<api_vars, dash_vars, gen_vars>>

\* lines 22-57: one call of fetch_folder_and_children, up to its loop
fetch_folder_and_children ==
    /\ pc = "traverse"
    /\ Head(stack) # <<>>
    /\ LET uid == Head(Head(stack))
           rest == <<Tail(Head(stack))>> \o Tail(stack)
       IN IF uid \in processed_uids
          THEN /\ stack' = rest
               /\ UNCHANGED <<processed_uids, all_folders, entered, fetch_failed>>
          ELSE /\ processed_uids' = MarkProcessed(processed_uids, uid)
               /\ entered' = [entered EXCEPT ![uid] = @ + 1]
               /\ \E detail \in Outcomes, subfolders \in Outcomes :
                    IF detail # "ok"
                    THEN /\ fetch_failed' = fetch_failed \cup {uid}
                         /\ stack' = AfterFetchError(rest)
                         /\ UNCHANGED all_folders
                    ELSE IF IsReserved(api_title[uid])
                    THEN /\ stack' = rest
                         /\ UNCHANGED <<all_folders, fetch_failed>>
                    ELSE /\ all_folders' = Append(all_folders, FolderRecord(uid))
                         /\ IF subfolders # "ok"
                            THEN /\ fetch_failed' = fetch_failed \cup {uid}
                                 /\ stack' = AfterFetchError(rest)
                            ELSE /\ stack' = <<Children(uid)>> \o rest
                                 /\ UNCHANGED fetch_failed
    /\ UNCHANGED <<pc, list_failed>>
    /\ UNCHANGED <<api_vars, dash_vars, gen_vars>>

\* line 51-52 exhausted: a call of fetch_folder_and_children returns
return_from_fetch ==
    /\ pc = "traverse"
    /\ Head(stack) = <<>>
    /\ Len(stack) > 1
    /\ stack' = Tail(stack)
    /\ UNCHANGED <<pc, processed_uids, all_folders, entered, fetch_failed, list_failed>>
    /\ UNCHANGED <<api_vars, dash_vars, gen_vars>>

\* line 96: the top-level loop is exhausted and all_folders is returned
return_all_folders ==
    /\ pc = "traverse"
    /\ stack = <<<<>>>>
    /\ pc' = "get_all_dashboards"
    /\ stack' = <<>>
    /\ UNCHANGED <<processed_uids, all_folders, entered, fetch_failed, list_failed>>
    /\ UNCHANGED <<api_vars, dash_vars, gen_vars>>

-----------------------------------------------------------------------------
(* get_all_dashboards                                                      *)

\* lines 121-130: editable is forced, the instance fields are removed
StripDocument(doc) ==
    [keys |-> (doc.keys \cup {"editable"}) \ {"version", "id", "gnetId"},
     editable |-> TRUE]

\* lines 132-137: the record appended to all_dashboards
DashboardRecord(hit) ==
    [uid |-> hit.uid, title |-> hit.title, folder_uid |-> hit.folderUid,
     json |-> StripDocument(ApiDocument(hit.uid))]

\* what was accumulated is dropped on an error
AfterDashboardError_Drop(dashboards) == <<>>

\* lines 139-144: the except clauses sit outside the loop, so an error of any
\* call ends the loop and what was accumulated is returned
AfterDashboardError(dashboards) == dashboards

\* lines 103-111: the search call
get_all_dashboards ==
    /\ pc = "get_all_dashboards"
    /\ \E r \in Outcomes :
        IF r # "ok"
        THEN /\ dash_error' = "search"
             /\ pc' = "select"
        ELSE /\ pc' = "fetch_dashboard"
             /\ UNCHANGED dash_error
    /\ UNCHANGED <<idx, all_dashboards, dash_failed_at>>
    /\ UNCHANGED <<api_vars, folder_vars, gen_vars>>

\* lines 113-137: one turn of the loop over the search response
fetch_dashboard ==
    /\ pc = "fetch_dashboard"
    /\ idx <= Len(api_search)
    /\ \E r \in Outcomes :
        IF r # "ok"
        THEN /\ dash_error' = "doc"
             /\ dash_failed_at' = idx
             /\ all_dashboards' = AfterDashboardError(all_dashboards)
             /\ pc' = "select"
             /\ UNCHANGED idx
        ELSE /\ all_dashboards' = Append(all_dashboards, DashboardRecord(api_search[idx]))
             /\ idx' = idx + 1
             /\ UNCHANGED <<pc, dash_error, dash_failed_at>>
    /\ UNCHANGED <<api_vars, folder_vars, gen_vars>>

\* line 144 after the loop ran to its end
return_all_dashboards ==
    /\ pc = "fetch_dashboard"
    /\ idx > Len(api_search)
    /\ pc' = "select"
    /\ UNCHANGED <<api_vars, folder_vars, dash_vars, gen_vars>>

-----------------------------------------------------------------------------
(* __main__: the selection                                                 *)

\* every folder of the instance counts as a target
TargetFolderUids_Instance(folders) == FolderUids

\* target_folder_uids = {folder['uid'] for folder in folders}
TargetFolderUids(folders) == {folders[i].uid : i \in 1..Len(folders)}

\* the membership test is left out
InTargetFolders_Any(dashboard, uids) == TRUE

\* dashboard['folder_uid'] in target_folder_uids
InTargetFolders(dashboard, uids) == dashboard.folder_uid \in uids

\* the list comprehension of lines 208-211
RECURSIVE SelectDashboards(_, _)
SelectDashboards(dashboards, uids) ==
    IF dashboards = <<>> THEN <<>>
    ELSE (IF InTargetFolders(Head(dashboards), uids)
          THEN <<Head(dashboards)>> ELSE <<>>)
            \o SelectDashboards(Tail(dashboards), uids)

select ==
    /\ pc = "select"
    /\ target_dashboards' = SelectDashboards(all_dashboards, TargetFolderUids(all_folders))
    /\ pc' = "generate_terraform"
    /\ UNCHANGED <<tf_config, files, artifact>>
    /\ UNCHANGED <<api_vars, folder_vars, dash_vars>>

-----------------------------------------------------------------------------
(* generate_terraform                                                      *)

\* line 149
skip_resources(arg) ==
    IF arg = None \/ arg = <<>> THEN {}
    ELSE {Strip(piece) : piece \in SplitComma(arg, <<>>)}

\* sorted(): stable insertion by the key uid
RECURSIVE InsertByUid(_, _)
InsertByUid(sorted, f) ==
    IF sorted = <<>> THEN <<f>>
    ELSE IF StrLess(f.uid, Head(sorted).uid)
         THEN <<f>> \o sorted
         ELSE <<Head(sorted)>> \o InsertByUid(Tail(sorted), f)

RECURSIVE SortedByUid(_)
SortedByUid(folders) ==
    IF folders = <<>> THEN <<>>
    ELSE InsertByUid(SortedByUid(SubSeq(folders, 1, Len(folders) - 1)),
                     folders[Len(folders)])

\* line 156, 163, 180: the name of a folder's block
FolderId(uid) == ReplaceHyphen(uid)

\* line 173: the name of a dashboard's block
DashboardId(uid) == <<"d", "_">> \o uid

\* line 172
DashboardFile(uid) == <<"dashboards/">> \o uid \o <<".json">>

\* lines 156-167
FolderBlock(folder) ==
    [type |-> "grafana_folder",
     name |-> FolderId(folder.uid),
     title |-> folder.title,
     uid |-> folder.uid,
     parent_folder_uid |-> folder.parent_uid,
     depends_on |-> IF folder.parent_uid # None
                    THEN FolderId(folder.parent_uid) ELSE None]

\* lines 186-193
DashboardBlock(dashboard) ==
    [type |-> "grafana_dashboard",
     name |-> DashboardId(dashboard.uid),
     folder |-> FolderId(dashboard.folder_uid),
     config_json |-> DashboardFile(dashboard.uid),
     overwrite |-> TRUE,
     depends_on |-> FolderId(dashboard.folder_uid)]

\* lines 155-167: the folder blocks, sorted by uid
FolderBlocks(folders) ==
    LET sorted == SortedByUid(folders)
    IN [i \in 1..Len(sorted) |-> FolderBlock(sorted[i])]

\* the document is written before the skip list is consulted
EmitDashboard_WriteFirst(acc, dashboard, skip) ==
    IF dashboard.folder_uid = None THEN [acc EXCEPT !.raised = TRUE]
    ELSE IF DashboardId(dashboard.uid) \in skip
    THEN [acc EXCEPT !.files = @ \cup {DashboardFile(dashboard.uid)}]
    ELSE [acc EXCEPT !.files = @ \cup {DashboardFile(dashboard.uid)},
                     !.blocks = Append(@, DashboardBlock(dashboard))]

\* lines 171-193: one turn of the dashboard loop.  The state of the loop is
\* the blocks and the files so far; raised is set when line 180 raises
\* AttributeError on a folder_uid of None
EmitDashboard(acc, dashboard, skip) ==
    IF DashboardId(dashboard.uid) \in skip THEN acc
    ELSE IF dashboard.folder_uid = None THEN [acc EXCEPT !.raised = TRUE]
    ELSE [acc EXCEPT !.files = @ \cup {DashboardFile(dashboard.uid)},
                     !.blocks = Append(@, DashboardBlock(dashboard))]

RECURSIVE DashboardLoop(_, _, _)
DashboardLoop(acc, dashboards, skip) ==
    IF dashboards = <<>> \/ acc.raised THEN acc
    ELSE DashboardLoop(EmitDashboard(acc, Head(dashboards), skip),
                       Tail(dashboards), skip)

\* lines 146-195
GenerateTerraform(folders, dashboards, arg) ==
    DashboardLoop([blocks |-> FolderBlocks(folders), files |-> {}, raised |-> FALSE],
                  dashboards, skip_resources(arg))

\* line 215.  An AttributeError is not among the errors __main__ catches
generate_terraform ==
    /\ pc = "generate_terraform"
    /\ LET out == GenerateTerraform(all_folders, target_dashboards, skip_arg)
       IN /\ files' = out.files
          /\ IF out.raised
             THEN pc' = "raised" /\ UNCHANGED tf_config
             ELSE pc' = "write" /\ tf_config' = out.blocks
    /\ UNCHANGED <<target_dashboards, artifact>>
    /\ UNCHANGED <<api_vars, folder_vars, dash_vars>>

\* lines 218-219
write_artifact ==
    /\ pc = "write"
    /\ artifact' = tf_config
    /\ pc' = "done"
    /\ UNCHANGED <<target_dashboards, tf_config, files>>
    /\ UNCHANGED <<api_vars, folder_vars, dash_vars>>

-----------------------------------------------------------------------------
(* The run                                                                 *)

\* the folder listings are arbitrary (cyclic parents, duplicate and cross
\* listings); one dashboard
ArbitraryListings ==
    /\ api_parent \in Parents \cup {CyclicParent}
    /\ api_extra \in Extras
    /\ folder_names \in TargetChoices
    /\ api_search = <<SearchHit(1, U_c)>>
    /\ skip_arg = None

\* the folders are a forest under the two top-level folders A and B; the
\* dashboard inventory and the skip list vary
ArbitraryInventory ==
    /\ api_parent \in {p \in Parents : p[U_ab] = None /\ p[U_a_b] = None}
    /\ api_title[U_ab] = "A" /\ api_title[U_a_b] = "B"
    /\ api_extra = {}
    /\ folder_names = <<>>
    /\ api_search \in Searches(MaxHits)
    /\ skip_arg \in SkipArgs

\* the state of the program before the first statement of __main__
Start ==
    /\ pc = "get_all_folders"
    /\ api_title \in Titles
    /\ stack = <<>>
    /\ processed_uids = {}
    /\ all_folders = <<>>
    /\ entered = [u \in FolderUids |-> 0]
    /\ fetch_failed = {}
    /\ list_failed = FALSE
    /\ idx = 1
    /\ all_dashboards = <<>>
    /\ dash_error = "none"
    /\ dash_failed_at = 0
    /\ target_dashboards = <<>>
    /\ tf_config = <<>>
    /\ files = {}
    /\ artifact = None

Init == Start /\ (ArbitraryListings \/ ArbitraryInventory)

TraversalInit == Start /\ ArbitraryListings

Next ==
    \/ get_all_folders
    \/ fetch_folder_and_children
    \/ return_from_fetch
    \/ return_all_folders
    \/ get_all_dashboards
    \/ fetch_dashboard
    \/ return_all_dashboards
    \/ select
    \/ generate_terraform
    \/ write_artifact

Spec == Init /\ [][Next]_vars

Traversal ==
    \/ get_all_folders
    \/ fetch_folder_and_children
    \/ return_from_fetch
    \/ return_all_folders

\* get_all_folders runs sequentially: whenever it can take a step, it does
FairSpec == TraversalInit /\ [][Next]_vars /\ WF_vars(Traversal)

-----------------------------------------------------------------------------
(* Vocabulary of the properties                                            *)

\* get_all_folders has returned its list
FoldersReturned == pc \notin {"get_all_folders", "traverse"}

\* line 200: get_all_folders has just returned its list to __main__
AtFolderReturn == pc = "get_all_dashboards"

\* the selection of __main__ has run
Selected == pc \in {"generate_terraform", "write", "done", "raised"}

\* generate_terraform has returned the artifact text
Generated == pc \in {"write", "done"}

ReturnedUids == {all_folders[i].uid : i \in 1..Len(all_folders)}

\* the uids one folders-by-parent response lists
Listed(u) == {Children(u)[i] : i \in 1..Len(Children(u))}

RECURSIVE ListedClosure(_, _)
ListedClosure(S, n) ==
    IF n = 0 THEN S
    ELSE ListedClosure(S \cup UNION {Listed(u) : u \in S}, n - 1)

\* the descendants of u by folders-by-parent
Descendants(u) == ListedClosure(Listed(u), Cardinality(FolderUids))

DescendantsOf(S) == UNION {Descendants(u) : u \in S}

ReservedFolders == {g \in FolderUids : api_title[g] = "GrafanaCloud"}

\* the uids the traversal starts from
RootSet ==
    LET roots == Roots(TopLevel, folder_names)
    IN {roots[i] : i \in 1..Len(roots)}

\* the folders some folders-by-parent path from a root reaches without
\* meeting a folder titled GrafanaCloud (ends included)
RECURSIVE PlainClosure(_, _)
PlainClosure(S, n) ==
    IF n = 0 THEN S
    ELSE PlainClosure(S \cup (UNION {Listed(u) : u \in S} \ ReservedFolders), n - 1)

PlainReachable == PlainClosure(RootSet \ ReservedFolders, Cardinality(FolderUids))

\* the traversal of lines 22-52 when no call fails, as a function of the
\* API: the state is the pair of all_folders and processed_uids
RECURSIVE FetchAll(_, _), FetchOne(_, _)
FetchOne(uid, st) ==
    IF uid \in st.processed THEN st
    ELSE LET seen == [st EXCEPT !.processed = @ \cup {uid}]
         IN IF api_title[uid] = "GrafanaCloud" THEN seen
            ELSE FetchAll(Children(uid),
                          [seen EXCEPT !.all = Append(@, uid)])

FetchAll(uids, st) ==
    IF uids = <<>> THEN st ELSE FetchAll(Tail(uids), FetchOne(Head(uids), st))

\* the uids get_all_folders returns when no call fails
FailureFreeUids ==
    LET out == FetchAll(Roots(TopLevel, folder_names), [all |-> <<>>, processed |-> {}])
    IN {out.all[i] : i \in 1..Len(out.all)}

FolderBlockNames ==
    {tf_config[i].name : i \in {j \in 1..Len(tf_config) : tf_config[j].type = "grafana_folder"}}

DashboardBlockNames ==
    {tf_config[i].name : i \in {j \in 1..Len(tf_config) : tf_config[j].type = "grafana_dashboard"}}

\* what the three values of --skip-resources name, read off by hand
NamedToSkip ==
    IF skip_arg = None THEN {}
    ELSE IF Len(skip_arg) = 4 THEN {<<"d", "_", "d", "1">>}
    ELSE {<<"d", "_", "a", "b", "c", "1", "2", "3">>, <<"d", "_", "x">>}

-----------------------------------------------------------------------------
(* Properties                                                              *)

\* C1: whatever the folders-by-parent responses (cycles, duplicates) and the
\* target names, the body of fetch_folder_and_children runs at most once for
\* each uid, and the traversal reaches the return of the folder list.
C1_TraversalTerminates ==
    /\ [](\A u \in FolderUids : entered[u] <= 1)
    /\ <>FoldersReturned

\* a folder that is its own descendant was traversed and the list returned
C1_Witness ==
    /\ FoldersReturned
    /\ \E u \in FolderUids :
        /\ u \in Descendants(u)
        /\ u \in ReturnedUids
        /\ Listed(u) # {}

\* C2 as stated: the returned list holds no folder titled GrafanaCloud and no
\* folders-by-parent descendant of one, for every backing API.
C2_NoReservedNorDescendant ==
    AtFolderReturn =>
        \A i \in 1..Len(all_folders) :
            /\ all_folders[i].title # "GrafanaCloud"
            /\ all_folders[i].uid \notin DescendantsOf(ReservedFolders)

\* C2 amended: the returned list holds no folder titled GrafanaCloud, and
\* every returned folder is reached from a traversal root by a
\* folders-by-parent path on which no folder is titled GrafanaCloud.
C2_ReservedPruned ==
    AtFolderReturn =>
        \A i \in 1..Len(all_folders) :
            /\ all_folders[i].title # "GrafanaCloud"
            /\ all_folders[i].uid \in PlainReachable

\* the reserved folder was fetched, it lists a subfolder, and that subfolder
\* is not returned while another folder is
C2_Witness ==
    /\ AtFolderReturn
    /\ all_folders # <<>>
    /\ \E g \in ReservedFolders :
        /\ g \in processed_uids
        /\ Listed(g) # {}
        /\ Listed(g) \cap ReturnedUids = {}

\* C3: for a forest, with no target names, no failed call and no folder
\* titled GrafanaCloud, every folder is returned exactly once, with the
\* parent it has in the forest.
C3_ForestExported ==
    (/\ AtFolderReturn
     /\ IsForest(api_parent) /\ api_extra = {}
     /\ folder_names = <<>>
     /\ ~list_failed /\ fetch_failed = {}
     /\ ReservedFolders = {})
    => /\ ReturnedUids = FolderUids
       /\ Len(all_folders) = Cardinality(FolderUids)
       /\ \A i \in 1..Len(all_folders) :
            all_folders[i].parent_uid = api_parent[all_folders[i].uid]

\* a forest three levels deep was exported without a failure
C3_Witness ==
    /\ AtFolderReturn
    /\ IsForest(api_parent) /\ api_extra = {}
    /\ folder_names = <<>>
    /\ ~list_failed /\ fetch_failed = {}
    /\ ReservedFolders = {}
    /\ \E u \in FolderUids :
        /\ api_parent[u] # None
        /\ api_parent[api_parent[u]] # None
    /\ Len(all_folders) = 3

\* C4: an HTTP error or a timeout on the detail or the children of a folder
\* truncates only that folder's branch: every folder the failure-free run
\* returns, other than the folders whose call failed and their descendants,
\* is still returned.
C4_FailureTruncatesBranch ==
    (AtFolderReturn /\ ~list_failed) =>
        \A v \in FailureFreeUids :
            v \notin (fetch_failed \cup DescendantsOf(fetch_failed))
                => v \in ReturnedUids

\* the call for the first top-level folder failed and a later top-level
\* folder was returned all the same
C4_Witness ==
    /\ AtFolderReturn
    /\ folder_names = <<>>
    /\ Len(TopLevel) >= 2
    /\ TopLevel[1] \in fetch_failed
    /\ TopLevel[1] \notin ReturnedUids
    /\ TopLevel[2] \in ReturnedUids
    /\ TopLevel[2] \notin DescendantsOf(fetch_failed)

\* C5: the selection keeps exactly the dashboards whose folder_uid is the uid
\* of a returned folder, in the order of the input list.
C5_Selection ==
    Selected =>
        LET kept == {j \in 1..Len(all_dashboards) :
                        \E i \in 1..Len(all_folders) :
                            all_folders[i].uid = all_dashboards[j].folder_uid}
        IN /\ Len(target_dashboards) = Cardinality(kept)
           /\ \E f \in [1..Len(target_dashboards) -> kept] :
                /\ \A i, j \in 1..Len(target_dashboards) : i < j => f[i] < f[j]
                /\ \A i \in 1..Len(target_dashboards) :
                        target_dashboards[i] = all_dashboards[f[i]]

\* of two fetched dashboards the first has no folder and is dropped, the
\* second is in a returned folder and is kept
C5_Witness ==
    /\ Selected
    /\ Len(all_dashboards) = 2
    /\ all_dashboards[1].folder_uid = None
    /\ Len(target_dashboards) = 1
    /\ target_dashboards[1] = all_dashboards[2]

\* C6: a selected dashboard whose identifier d_<uid> is in the skip set has
\* no block and no file; every other selected dashboard has both.
C6_SkipHonoured ==
    Generated =>
        \A i \in 1..Len(target_dashboards) :
            LET uid == target_dashboards[i].uid
                id == <<"d", "_">> \o uid
                file == <<"dashboards/">> \o uid \o <<".json">>
            IN IF id \in NamedToSkip
               THEN id \notin DashboardBlockNames /\ file \notin files
               ELSE id \in DashboardBlockNames /\ file \in files

\* d_abc123 is named, with blanks around it, in the skip list: the selected
\* dashboard abc123 is left out and the selected dashboard d1 is emitted
C6_Witness ==
    /\ pc = "done"
    /\ Len(target_dashboards) = 2
    /\ target_dashboards[2].uid = D_abc123
    /\ <<"d", "_">> \o D_abc123 \in NamedToSkip
    /\ DashboardBlockNames = {<<"d", "_">> \o D_d1}
    /\ files = {<<"dashboards/">> \o D_d1 \o <<".json">>}

\* C7 as stated: after the fetch of one dashboard's document fails, no
\* dashboard list is returned and neither selection nor generation runs.
C7_DocumentFailureEndsRun ==
    dash_error = "doc" => pc \notin {"select", "generate_terraform", "write", "done"}

\* C7 amended: the failure is caught inside get_all_dashboards, which
\* returns the dashboards fetched before it; the selection runs on them.
C7_DocumentFailureReturnsFetched ==
    dash_error = "doc" =>
        /\ pc \in {"select", "generate_terraform", "write", "done"}
        /\ Len(all_dashboards) = dash_failed_at - 1
        /\ \A i \in 1..Len(all_dashboards) : all_dashboards[i].uid = api_search[i].uid
        /\ Selected =>
              \A i \in 1..Len(all_dashboards) :
                  all_dashboards[i].folder_uid \in ReturnedUids
                      => \E j \in 1..Len(target_dashboards) :
                              target_dashboards[j] = all_dashboards[i]

\* the second document fetch failed; the run went on and wrote an artifact
\* with the block of the first dashboard
C7_Witness ==
    /\ pc = "done"
    /\ dash_error = "doc"
    /\ dash_failed_at = 2
    /\ DashboardBlockNames = {<<"d", "_">> \o D_d1}
    /\ artifact = tf_config

\* C8: every folder block that declares a parent names a parent whose block
\* is in the same artifact.
C8_ParentBlockEmitted ==
    Generated =>
        \A i \in 1..Len(tf_config) :
            (tf_config[i].type = "grafana_folder" /\ tf_config[i].depends_on # None)
                => tf_config[i].depends_on \in FolderBlockNames

\* C9: no two blocks of one resource type have the same name.
C9_BlockNamesDistinct ==
    Generated =>
        \A i, j \in 1..Len(tf_config) :
            (i # j /\ tf_config[i].type = tf_config[j].type)
                => tf_config[i].name # tf_config[j].name

\* C10: generate_terraform is never called with a dashboard that has no
\* folder_uid, and every dashboard block refers, in folder and in
\* depends_on, to a folder block of the same artifact.
C10_DashboardFolderEmitted ==
    /\ pc # "raised"
    /\ pc = "generate_terraform" =>
          \A i \in 1..Len(target_dashboards) : target_dashboards[i].folder_uid # None
    /\ Generated =>
          \A i \in 1..Len(tf_config) :
              tf_config[i].type = "grafana_dashboard" =>
                  /\ tf_config[i].folder \in FolderBlockNames
                  /\ tf_config[i].depends_on \in FolderBlockNames

\* a dashboard of folder a-b was emitted and refers to the folder block a_b,
\* while a fetched dashboard without folder was left out by the selection
C10_Witness ==
    /\ pc = "done"
    /\ \E i \in 1..Len(all_dashboards) : all_dashboards[i].folder_uid = None
    /\ \E i \in 1..Len(tf_config) :
        /\ tf_config[i].type = "grafana_dashboard"
        /\ tf_config[i].folder = <<"a", "_", "b">>

====
